---------------------------- MODULE Spec2Model ----------------------------
(***************************************************************************)
(* State-machine model of src/server.js, the backend API of the QR-code    *)
(* lead-collection platform.  The state is the five in-memory collections  *)
(* of the server together with the wall clock; every Express handler is    *)
(* one atomic action (no handler awaits before it answers).  The last      *)
(* request and its response are recorded in req and res.                   *)
(*                                                                         *)
(* JavaScript objects whose key order or key set matters (contacts) are    *)
(* sequences of <<key, value>> pairs in insertion order; the other records *)
(* have a fixed shape and are TLA+ records.                                *)
(***************************************************************************)
EXTENDS Integers, Sequences, FiniteSets, TLC

VARIABLES contacts, qrCodes, scans, loummelSignups, wheelResults, now, req, res,
          notifications, file, writeQueue, writing, acked

vars == <<contacts, qrCodes, scans, loummelSignups, wheelResults, now, req, res,
          notifications, file, writeQueue, writing, acked>>

\* the file-backed store: the persisted snapshot, the queue of its writes,
\* the writes in progress and the writes acknowledged so far
persistence == <<file, writeQueue, writing, acked>>

collections == <<contacts, qrCodes, scans, loummelSignups, wheelResults>>

---------------------------------------------------------------------------
(* Bounds of the model *)

MaxContacts == 3

MaxQRCodes == 2

MaxScans == 2

MaxSignups == 2

MaxWheel == 1

MaxClock == 2

MaxParam == 1

\* contacts in the store while updates and deletes are explored
MaxUpdated == 1

\* records in the whole store while the five appends are explored together
MaxRecords == 3

MaxWrites == 3

---------------------------------------------------------------------------
(* JavaScript values and helpers *)

\* the value of a missing property or parameter
Undefined == "<undefined>"

Min(a, b) == IF a < b THEN a ELSE b

Max(a, b) == IF a > b THEN a ELSE b

Digit == <<"0", "1", "2", "3", "4", "5", "6", "7", "8", "9">>

\* Number.prototype.toString() of a non-negative integer
RECURSIVE NumberToString(_)
NumberToString(n) == IF n < 10 THEN Digit[n + 1]
               ELSE NumberToString(n \div 10) \o Digit[(n % 10) + 1]

\* Date.prototype.toISOString(): an injective, fixed-format rendering of the
\* millisecond clock
toISOString(t) == "1970-01-01T00:00:00.00" \o NumberToString(t) \o "Z"

\* --- objects as ordered <<key, value>> sequences ---

Has(o, k) == \E i \in 1..Len(o) : o[i][1] = k

Get(o, k) == IF Has(o, k)
             THEN o[CHOOSE i \in 1..Len(o) : o[i][1] = k][2]
             ELSE Undefined

\* o[k] = v : an existing key keeps its position, a new key goes last
Put(o, k, v) == IF Has(o, k)
                THEN [i \in 1..Len(o) |-> IF o[i][1] = k THEN <<k, v>> ELSE o[i]]
                ELSE Append(o, <<k, v>>)

\* { ...o, ...p }
RECURSIVE Spread(_, _)
Spread(o, p) == IF p = <<>> THEN o
                ELSE Spread(Put(o, p[1][1], p[1][2]), Tail(p))

\* --- arrays ---

\* Array.prototype.slice(start, end) for non-negative integer arguments
Slice(s, start, end) ==
    LET k == Min(start, Len(s))
        final == Min(end, Len(s))
    IN  IF k < final THEN SubSeq(s, k + 1, final) ELSE <<>>

\* Array.prototype.splice(index, 1): a negative index counts from the end
Splice1(s, index) ==
    LET k == IF index < 0 THEN Max(Len(s) + index, 0) ELSE Min(index, Len(s))
    IN  SubSeq(s, 1, k) \o SubSeq(s, k + 2, Len(s))

\* Array.prototype.filter on the status property
RECURSIVE FilterStatus(_, _)
FilterStatus(s, status) ==
    IF s = <<>> THEN <<>>
    ELSE IF Get(Head(s), "status") = status
         THEN <<Head(s)>> \o FilterStatus(Tail(s), status)
         ELSE FilterStatus(Tail(s), status)

\* contacts.findIndex(c => c.id === id), 0-based, -1 when there is none
findIndex(s, id) ==
    IF \E i \in 1..Len(s) : Get(s[i], "id") = id
    THEN (CHOOSE i \in 1..Len(s) : /\ Get(s[i], "id") = id
                                   /\ \A j \in 1..(i - 1) : Get(s[j], "id") # id) - 1
    ELSE -1

\* --- query-string parameters: decimal strings are sequences of digits ---

RECURSIVE DigitsToNum(_)
DigitsToNum(ds) == IF ds = <<>> THEN 0
                   ELSE DigitsToNum(SubSeq(ds, 1, Len(ds) - 1)) * 10 + ds[Len(ds)]

RECURSIVE NumToDigits(_)
NumToDigits(n) == IF n < 10 THEN <<n>>
                  ELSE Append(NumToDigits(n \div 10), n % 10)

JsNum(n) == [t |-> "number", n |-> n, s |-> <<>>]

JsStr(ds) == [t |-> "string", n |-> 0, s |-> ds]

JsUndef == [t |-> "undefined", n |-> 0, s |-> <<>>]

\* destructuring default: { p = d } = req.query
Default(v, d) == IF v.t = "undefined" THEN JsNum(d) ELSE v

\* parseInt(v) of a number or of a non-empty decimal string
parseInt(v) == IF v.t = "number" THEN v.n ELSE DigitsToNum(v.s)

\* v + n with n a number: addition on numbers, concatenation on a string
Plus(v, n) == IF v.t = "number" THEN JsNum(v.n + n)
              ELSE JsStr(v.s \o NumToDigits(n))

\* ToIntegerOrInfinity, as applied by slice to its arguments
ToInteger(v) == IF v.t = "number" THEN v.n ELSE DigitsToNum(v.s)

---------------------------------------------------------------------------
(* express-validator chains *)

\* normalizeEmail(): lower-cases the address (all_lowercase is the default)
normalizeEmail(e) == IF e = "A@X.IO" THEN "a@x.io" ELSE e

\* isEmail()
isEmail(e) == e \in {"a@x.io", "A@X.IO", "b@x.io", "c@x.io"}

\* trim()
trim(s) == IF s = "  " THEN "" ELSE s

\* the sanitizers of a chain rewrite the fields of req.body that are present
RECURSIVE Sanitize(_, _)
Sanitize(body, fields) ==
    IF body = <<>> THEN <<>>
    ELSE LET k == body[1][1]
             v == body[1][2]
             w == IF k \notin fields THEN v
                  ELSE IF k = "email" THEN normalizeEmail(v) ELSE trim(v)
         IN  <<<<k, w>>>> \o Sanitize(Tail(body), fields)

\* validationResult(req).isEmpty() for a chain with an email and trimmed
\* non-empty fields
Valid(body, fields) ==
    \A k \in fields : /\ Has(body, k)
                      /\ IF k = "email" THEN isEmail(Get(body, k))
                         ELSE trim(Get(body, k)) # ""

---------------------------------------------------------------------------
(* Contacts *)

ContactFields == {"email", "firstname", "lastname", "phone"}

Person(email) == << <<"email", email>>, <<"firstname", "Ann">>,
                    <<"lastname", "Lee">>, <<"phone", "0601">> >>

\* request bodies of POST /api/contacts
ContactBodies ==
    { Person("a@x.io") \o << <<"callback_preference", "urgent">> >>,
      Person("A@X.IO") \o << <<"callback_preference", "48h">>, <<"status", "hot">> >>,
      Person("b@x.io") \o << <<"company", "Acme, Inc">> >>,
      << <<"id", "1">> >> \o Person("b@x.io") \o << <<"callback_preference", "later">> >>,
      << <<"email", "a@x.io">>, <<"firstname", "  ">>, <<"lastname", "Lee">>,
         <<"phone", "0601">> >>,
      << <<"email", "nobody">>, <<"firstname", "Ann">>, <<"lastname", "Lee">>,
         <<"phone", "0601">> >> }

\* the bodies of the contacts that are updated later
UpdatedBodies ==
    { Person("A@X.IO") \o << <<"callback_preference", "48h">>, <<"status", "hot">> >>,
      Person("b@x.io") \o << <<"company", "Acme, Inc">> >>,
      << <<"email", "nobody">>, <<"firstname", "Ann">>, <<"lastname", "Lee">>,
         <<"phone", "0601">> >> }

\* request bodies of PUT /api/contacts/:id
ContactPatches ==
    { << <<"callback_preference", "urgent">> >>,
      << <<"callback_preference", "never">>, <<"company", "Acme">> >>,
      << <<"status", "vip">> >> }

\* the :id path parameters tried
IdParams == {NumberToString(t) : t \in 1..MaxClock} \cup {"nope"}

determineStatus(callbackPreference) ==
    IF callbackPreference = "urgent" THEN "hot"
    ELSE IF callbackPreference = "48h" THEN "warm"
    ELSE "cold"

\* the object literal of POST /api/contacts, with the body's status last
NewContactBodyStatus(body, t) ==
    Spread(Put(Put(Put(<< <<"id", NumberToString(t)>> >>,
                       "status", determineStatus(Get(body, "callback_preference"))),
                   "created_at", toISOString(t)),
               "updated_at", toISOString(t)),
           body)

\* { id, ...req.body, status, created_at, updated_at }
NewContact(body, t) ==
    Put(Put(Put(Spread(<< <<"id", NumberToString(t)>> >>, body),
                "status", determineStatus(Get(body, "callback_preference"))),
            "created_at", toISOString(t)),
        "updated_at", toISOString(t))

\* the clock readings a handler may see: time does not go back
Ticks == {t \in {now, now + 1} : t <= MaxClock}

Response(op, status, data) == [op |-> op, status |-> status, data |-> data]

\* fn(record).catch(console.error) for each fn of fns: the async function is
\* called once and its promise is left pending, with console.error as the
\* only handler of a rejection
Started(fns, record) ==
    [i \in 1..Len(fns) |-> [fn |-> fns[i], id |-> Get(record, "id"),
                            email |-> Get(record, "email"), state |-> "pending"]]

\* POST /api/contacts
CreateContact(body) ==
    /\ req' = [op |-> "CreateContact", body |-> body]
    /\ UNCHANGED persistence
    /\ IF ~Valid(body, ContactFields)
       THEN /\ res' = Response("CreateContact", 400, <<>>)
            /\ notifications' = <<>>
            /\ UNCHANGED <<collections, now>>
       ELSE /\ Len(contacts) < MaxContacts
            /\ \E t \in Ticks :
                 LET contact == NewContact(Sanitize(body, ContactFields), t)
                 IN  /\ now' = t
                     /\ contacts' = Append(contacts, contact)
                     /\ notifications' =
                            Started(<<"sendWelcomeEmail", "syncToCRM">>, contact)
                     /\ res' = Response("CreateContact", 201, contact)
            /\ UNCHANGED <<qrCodes, scans, loummelSignups, wheelResults>>

\* the values a query parameter takes: absent, or a decimal string
QueryNumbers == {JsUndef} \cup {JsStr(NumToDigits(n)) : n \in 0..MaxParam}

StatusFilters == {Undefined, "all", "hot"}

\* GET /api/contacts (requests without a search term)
ListContacts(status, limit0, offset0) ==
    LET limit == Default(limit0, 50)
        offset == Default(offset0, 0)
        filtered == IF status # Undefined /\ status # "" /\ status # "all"
                    THEN FilterStatus(contacts, status)
                    ELSE contacts
        paginated == Slice(filtered, ToInteger(offset),
                           ToInteger(Plus(offset, parseInt(limit))))
    IN  /\ notifications' = <<>>
        /\ UNCHANGED persistence
        /\ req' = [op |-> "ListContacts", status |-> status,
                   limit |-> limit0, offset |-> offset0]
        /\ res' = Response("ListContacts", 200,
                           [data |-> paginated, total |-> Len(filtered),
                            limit |-> parseInt(limit), offset |-> parseInt(offset)])
        /\ UNCHANGED <<collections, now>>

\* GET /api/contacts/:id
GetContact(id) ==
    LET index == findIndex(contacts, id)
    IN  /\ notifications' = <<>>
        /\ UNCHANGED persistence
        /\ req' = [op |-> "GetContact", id |-> id]
        /\ res' = IF index = -1 THEN Response("GetContact", 404, <<>>)
                  ELSE Response("GetContact", 200, contacts[index + 1])
        /\ UNCHANGED <<collections, now>>

\* the merge of PUT /api/contacts/:id, with the status derived again
UpdatedContactReclassified(old, patch, t) ==
    Put(Put(Spread(old, patch), "status",
            determineStatus(Get(Spread(old, patch), "callback_preference"))),
        "updated_at", toISOString(t))

\* { ...contacts[index], ...req.body, updated_at }
UpdatedContact(old, patch, t) ==
    Put(Spread(old, patch), "updated_at", toISOString(t))

\* PUT /api/contacts/:id
UpdateContact(id, patch) ==
    LET index == findIndex(contacts, id)
    IN  /\ notifications' = <<>>
        /\ UNCHANGED persistence
        /\ req' = [op |-> "UpdateContact", id |-> id, body |-> patch]
        /\ IF index = -1
           THEN /\ res' = Response("UpdateContact", 404, <<>>)
                /\ UNCHANGED <<collections, now>>
           ELSE \E t \in Ticks :
                  LET updated == UpdatedContact(contacts[index + 1], patch, t)
                  IN  /\ now' = t
                      /\ contacts' = [contacts EXCEPT ![index + 1] = updated]
                      /\ res' = Response("UpdateContact", 200, updated)
                      /\ UNCHANGED <<qrCodes, scans, loummelSignups, wheelResults>>

\* the delete handler with the splice moved before the not-found test
ContactsAfterDeleteUnguarded(cs, index) == Splice1(cs, index)

\* contacts after DELETE /api/contacts/:id found the index
ContactsAfterDelete(cs, index) == IF index = -1 THEN cs ELSE Splice1(cs, index)

\* DELETE /api/contacts/:id
DeleteContact(id) ==
    LET index == findIndex(contacts, id)
    IN  /\ notifications' = <<>>
        /\ UNCHANGED persistence
        /\ req' = [op |-> "DeleteContact", id |-> id]
        /\ contacts' = ContactsAfterDelete(contacts, index)
        /\ res' = IF index = -1 THEN Response("DeleteContact", 404, <<>>)
                  ELSE Response("DeleteContact", 200, <<>>)
        /\ UNCHANGED <<qrCodes, scans, loummelSignups, wheelResults, now>>

---------------------------------------------------------------------------
(* QR codes and scans *)

QRTypes == {"contact", "loummel", "resources", "vcard", "appointment", "social", "game"}

\* isURL()
isURL(u) == u \in {"https://x.io", "https://y.io/stand"}

\* validationResult(req).isEmpty() for POST /api/qrcodes
ValidQRCode(body) ==
    /\ Has(body, "name") /\ trim(Get(body, "name")) # ""
    /\ Has(body, "type") /\ Get(body, "type") \in QRTypes
    /\ Has(body, "url") /\ isURL(Get(body, "url"))

QRCode(name) == << <<"name", name>>, <<"type", "contact">>, <<"url", "https://x.io">> >>

\* request bodies of POST /api/qrcodes
QRCodeBodies ==
    { QRCode("Booth A"),
      QRCode("Booth B"),
      << <<"id", "1">> >> \o QRCode("Booth C"),
      << <<"name", "Booth D">>, <<"type", "poster">>, <<"url", "https://x.io">> >> }

\* { id, ...req.body, scan_count: 0, active: true, created_at }.  The pair
\* "seq" is a history field, not a property of the object: it numbers the
\* objects in the order they were pushed.
NewQRCode(body, t, seq) ==
    Put(Put(Put(Put(Spread(<< <<"id", NumberToString(t)>> >>, body),
                    "scan_count", 0),
                "active", TRUE),
            "created_at", toISOString(t)),
        "seq", seq)

\* POST /api/qrcodes
CreateQRCode(body) ==
    /\ notifications' = <<>>
    /\ UNCHANGED persistence
    /\ req' = [op |-> "CreateQRCode", body |-> body]
    /\ IF ~ValidQRCode(body)
       THEN /\ res' = Response("CreateQRCode", 400, <<>>)
            /\ UNCHANGED <<collections, now>>
       ELSE /\ Len(qrCodes) < MaxQRCodes
            /\ \E t \in Ticks :
                 LET qrCode == NewQRCode(Sanitize(body, {"name"}), t, Len(qrCodes) + 1)
                 IN  /\ now' = t
                     /\ qrCodes' = Append(qrCodes, qrCode)
                     /\ res' = Response("CreateQRCode", 201, qrCode)
            /\ UNCHANGED <<contacts, scans, loummelSignups, wheelResults>>

\* GET /api/qrcodes
ListQRCodes ==
    /\ notifications' = <<>>
    /\ UNCHANGED persistence
    /\ req' = [op |-> "ListQRCodes"]
    /\ res' = Response("ListQRCodes", 200, qrCodes)
    /\ UNCHANGED <<collections, now>>

\* scans.filter(s => s.qr_code_id === id)
RECURSIVE ScansOf(_, _)
ScansOf(s, id) ==
    IF s = <<>> THEN <<>>
    ELSE IF Get(Head(s), "qr_code_id") = id
         THEN <<Head(s)>> \o ScansOf(Tail(s), id)
         ELSE ScansOf(Tail(s), id)

\* qrScans.filter(s => s.converted).length
RECURSIVE Converted(_)
Converted(s) ==
    IF s = <<>> THEN 0
    ELSE (IF Get(Head(s), "converted") = TRUE THEN 1 ELSE 0) + Converted(Tail(s))

\* --- numbers with two decimals, counted in hundredths ---

\* a JavaScript number
Number2(h) == [t |-> "number", nan |-> FALSE, hundredths |-> h]

\* (p / q * 100), p >= 0, q > 0, rounded half up to two decimals, in hundredths
Percent2(p, q) == (2 * p * 10000 + q) \div (2 * q)

\* Number.prototype.toFixed(2): a string, the decimal rendering with two
\* fraction digits ("33.33"), kept as its type and its value in hundredths
toFixed2(h) == [t |-> "string", nan |-> FALSE, hundredths |-> h]

\* NaN.toFixed(2) is the string "NaN"
toFixedNaN == [t |-> "string", nan |-> TRUE, hundredths |-> 0]

\* GET /api/qrcodes/:id/stats
GetQRCodeStats(id) ==
    LET index == findIndex(qrCodes, id)
        qrScans == ScansOf(scans, id)
        conversions == Converted(qrScans)
    IN  /\ notifications' = <<>>
        /\ UNCHANGED persistence
        /\ req' = [op |-> "GetQRCodeStats", id |-> id]
        /\ res' = IF index = -1 THEN Response("GetQRCodeStats", 404, <<>>)
                  ELSE Response("GetQRCodeStats", 200,
                         [qrCode |-> qrCodes[index + 1],
                          scans |-> qrScans,
                          total_scans |-> Len(qrScans),
                          conversions |-> conversions,
                          conversion_rate |->
                              IF Len(qrScans) > 0
                              THEN toFixed2(Percent2(conversions, Len(qrScans)))
                              ELSE Number2(0)])
        /\ UNCHANGED <<collections, now>>

\* the scan handler without its not-found test: the scan is pushed, then
\* the increment of the missing QR code throws
RecordScanUnchecked(id) ==
    LET index == findIndex(qrCodes, id)
    IN  /\ notifications' = <<>>
        /\ UNCHANGED persistence
        /\ req' = [op |-> "RecordScan", id |-> id]
        /\ Len(scans) < MaxScans
        /\ \E t \in Ticks :
             LET scan == << <<"id", NumberToString(t)>>,
                            <<"qr_code_id", id>>,
                            <<"user_agent", "curl/8">>,
                            <<"ip_address", "::1">>,
                            <<"scanned_at", toISOString(t)>>,
                            <<"converted", FALSE>> >>
             IN  /\ now' = t
                 /\ scans' = Append(scans, scan)
                 /\ qrCodes' = IF index = -1 THEN qrCodes
                               ELSE [qrCodes EXCEPT ![index + 1] =
                                       Put(@, "scan_count", Get(@, "scan_count") + 1)]
                 /\ res' = IF index = -1 THEN Response("RecordScan", 500, <<>>)
                           ELSE Response("RecordScan", 200, scan)
        /\ UNCHANGED <<contacts, loummelSignups, wheelResults>>

\* POST /api/qrcodes/:id/scan
RecordScan(id) ==
    LET index == findIndex(qrCodes, id)
    IN  /\ notifications' = <<>>
        /\ UNCHANGED persistence
        /\ req' = [op |-> "RecordScan", id |-> id]
        /\ IF index = -1
           THEN /\ res' = Response("RecordScan", 404, <<>>)
                /\ UNCHANGED <<collections, now>>
           ELSE /\ Len(scans) < MaxScans
                /\ \E t \in Ticks :
                     LET scan == << <<"id", NumberToString(t)>>,
                                    <<"qr_code_id", id>>,
                                    <<"user_agent", "curl/8">>,
                                    <<"ip_address", "::1">>,
                                    <<"scanned_at", toISOString(t)>>,
                                    <<"converted", FALSE>> >>
                         qrCode == qrCodes[index + 1]
                     IN  /\ now' = t
                         /\ scans' = Append(scans, scan)
                         /\ qrCodes' = [qrCodes EXCEPT ![index + 1] =
                                Put(qrCode, "scan_count", Get(qrCode, "scan_count") + 1)]
                         /\ res' = Response("RecordScan", 200, scan)
                /\ UNCHANGED <<contacts, loummelSignups, wheelResults>>

---------------------------------------------------------------------------
(* Loummel signups and wheel results *)

SignupFields == {"email", "name", "phone"}

Signup(email) == << <<"email", email>>, <<"name", "Ann">>, <<"phone", "0601">> >>

\* request bodies of POST /api/loummel/signup
SignupBodies ==
    { Signup("a@x.io"), Signup("A@X.IO"), Signup("b@x.io"), Signup("c@x.io"),
      << <<"id", "1">> >> \o Signup("b@x.io"),
      Signup("nobody") }

\* the outcomes of generatePromoCode(): 'FOIRE' and six random characters
PromoCodes == {"FOIREK3J9QZ", "FOIRE7XW2MA"}

\* loummelSignups.find(s => s.email === email) with the test left out
existingNever(s, email) == FALSE

\* loummelSignups.find(s => s.email === email) finds a signup
existing(s, email) == \E i \in 1..Len(s) : Get(s[i], "email") = email

\* POST /api/loummel/signup
CreateSignup(body0) ==
    LET body == Sanitize(body0, SignupFields)
    IN  /\ req' = [op |-> "CreateSignup", body |-> body0]
        /\ UNCHANGED persistence
        /\ IF ~Valid(body0, SignupFields) \/ existing(loummelSignups, Get(body, "email"))
           THEN /\ res' = Response("CreateSignup", 400,
                              IF Valid(body0, SignupFields) THEN "already" ELSE "errors")
                /\ notifications' = <<>>
                /\ UNCHANGED <<collections, now>>
           ELSE /\ Len(loummelSignups) < MaxSignups
                /\ \E t \in Ticks, code \in PromoCodes :
                     LET signup == Put(Put(Spread(<< <<"id", NumberToString(t)>> >>, body),
                                           "promo_code", code),
                                       "created_at", toISOString(t))
                     IN  /\ now' = t
                         /\ loummelSignups' = Append(loummelSignups, signup)
                         /\ notifications' =
                                Started(<<"sendLoummelWelcomeEmail">>, signup)
                         /\ res' = Response("CreateSignup", 201, signup)
                /\ UNCHANGED <<contacts, qrCodes, scans, wheelResults>>

\* GET /api/loummel/signups
ListSignups ==
    /\ notifications' = <<>>
    /\ UNCHANGED persistence
    /\ req' = [op |-> "ListSignups"]
    /\ res' = Response("ListSignups", 200,
                       [data |-> loummelSignups, total |-> Len(loummelSignups)])
    /\ UNCHANGED <<collections, now>>

WheelFields == {"email", "name", "prize"}

\* request bodies of POST /api/wheel/result
WheelBodies ==
    { << <<"email", "a@x.io">>, <<"name", "Ann">>, <<"prize", "mug">> >>,
      << <<"id", "1">>, <<"email", "b@x.io">>, <<"name", "Bob">>, <<"prize", "pen">> >>,
      << <<"email", "a@x.io">>, <<"name", "Ann">>, <<"prize", "  ">> >> }

\* POST /api/wheel/result
CreateWheelResult(body) ==
    /\ req' = [op |-> "CreateWheelResult", body |-> body]
    /\ UNCHANGED persistence
    /\ IF ~Valid(body, WheelFields)
       THEN /\ res' = Response("CreateWheelResult", 400, <<>>)
            /\ notifications' = <<>>
            /\ UNCHANGED <<collections, now>>
       ELSE /\ Len(wheelResults) < MaxWheel
            /\ \E t \in Ticks :
                 LET result == Put(Spread(<< <<"id", NumberToString(t)>> >>,
                                          Sanitize(body, WheelFields)),
                                   "created_at", toISOString(t))
                 IN  /\ now' = t
                     /\ wheelResults' = Append(wheelResults, result)
                     /\ notifications' =
                            Started(<<"sendPrizeConfirmationEmail">>, result)
                     /\ res' = Response("CreateWheelResult", 201, result)
            /\ UNCHANGED <<contacts, qrCodes, scans, loummelSignups>>

---------------------------------------------------------------------------
(* Notifications *)

\* the ways the promise of a notification settles
Outcomes == {"done", "failed"}

\* a rejection that reaches the caller: the answer is replaced by an error
SettleSurfaced(i, outcome) ==
    /\ i \in 1..Len(notifications)
    /\ notifications[i].state = "pending"
    /\ notifications' = [notifications EXCEPT ![i].state = outcome]
    /\ res' = IF outcome = "failed" THEN Response(res.op, 500, <<>>) ELSE res
    /\ UNCHANGED <<collections, now, req, persistence>>

\* sendWelcomeEmail, syncToCRM, sendLoummelWelcomeEmail and
\* sendPrizeConfirmationEmail: the promise of notification i is fulfilled, or
\* it is rejected and .catch(console.error) logs the error
Settle(i, outcome) ==
    /\ i \in 1..Len(notifications)
    /\ notifications[i].state = "pending"
    /\ notifications' = [notifications EXCEPT ![i].state = outcome]
    /\ UNCHANGED <<collections, now, req, res, persistence>>

---------------------------------------------------------------------------
(* The file-backed store: a whole-file snapshot, read fully, mutated in
   memory and rewritten fully on every mutation *)

FileIds == {"1", "2"}

\* the mutations of a collection
Mutations == [kind : {"append", "update", "delete"}, id : FileIds]

\* the snapshot after mutation m: a record has its id and the number of
\* updates it has had; update and delete act on the first record with the id
\* and leave a snapshot without it as it is
Apply(snapshot, m) ==
    LET index == findIndex(snapshot, m.id)
    IN  IF m.kind = "append"
        THEN Append(snapshot, << <<"id", m.id>>, <<"updates", 0>> >>)
        ELSE IF index = -1 THEN snapshot
        ELSE IF m.kind = "update"
             THEN [snapshot EXCEPT ![index + 1] = Put(@, "updates", Get(@, "updates") + 1)]
        ELSE Splice1(snapshot, index)

\* a write may start whatever else is in progress
MayStartAlways(inProgress) == TRUE

\* one writer at a time: a write starts only when none is in progress
MayStart(inProgress) == Len(inProgress) = 0

\* a mutating request hands its write to the queue
Submit(m) ==
    /\ Len(acked) + Len(writing) + Len(writeQueue) < MaxWrites
    /\ writeQueue' = Append(writeQueue, m)
    /\ UNCHANGED <<file, writing, acked, collections, now, req, res, notifications>>

\* the queue starts its next write: the file is read fully
StartWrite ==
    /\ Len(writeQueue) > 0
    /\ MayStart(writing)
    /\ writing' = Append(writing, [m |-> Head(writeQueue), snapshot |-> file])
    /\ writeQueue' = Tail(writeQueue)
    /\ UNCHANGED <<file, acked, collections, now, req, res, notifications>>

\* write i ends: the mutated snapshot replaces the file, and the request is
\* acknowledged
FinishWrite(i) ==
    /\ i \in 1..Len(writing)
    /\ file' = Apply(writing[i].snapshot, writing[i].m)
    /\ acked' = Append(acked, writing[i].m)
    /\ writing' = Splice1(writing, i - 1)
    /\ UNCHANGED <<writeQueue, collections, now, req, res, notifications>>

---------------------------------------------------------------------------
(* Reports *)

avgCustomerValue == 3000

TopCount == 5

RECURSIVE InsertByScans(_, _)
InsertByScans(r, q) ==
    IF r = <<>> THEN <<q>>
    ELSE IF Get(Head(r), "scan_count") >= Get(q, "scan_count")
         THEN <<Head(r)>> \o InsertByScans(Tail(r), q)
         ELSE <<q>> \o r

\* qrCodes.sort((a, b) => b.scan_count - a.scan_count): the array itself is
\* sorted, descending and stable (ECMAScript 2019)
RECURSIVE sort(_)
sort(s) == IF s = <<>> THEN <<>>
           ELSE InsertByScans(sort(SubSeq(s, 1, Len(s) - 1)), s[Len(s)])

\* .map(q => ({ name: q.name, scans: q.scan_count }))
TopPairs(s) == [i \in 1..Len(s) |->
                  [name |-> Get(s[i], "name"), scans |-> Get(s[i], "scan_count")]]

ReportTypes == {"daily", "event", "roi", "weekly"}

generateDailyReport ==
    [report_type |-> "daily",
     date |-> "1970-01-01",
     contacts_collected |-> Len(contacts),
     scans_recorded |-> Len(scans),
     loummel_signups |-> Len(loummelSignups),
     conversion_rate |-> IF Len(contacts) > 0
                         THEN toFixed2(Percent2(Len(loummelSignups), Len(contacts)))
                         ELSE Number2(0)]

generateEventReport ==
    [report_type |-> "event",
     total_contacts |-> Len(contacts),
     total_scans |-> Len(scans),
     total_loummel |-> Len(loummelSignups),
     lead_distribution |-> [hot |-> Len(FilterStatus(contacts, "hot")),
                            warm |-> Len(FilterStatus(contacts, "warm")),
                            cold |-> Len(FilterStatus(contacts, "cold"))],
     top_qr_codes |-> TopPairs(Slice(sort(qrCodes), 0, TopCount))]

\* contacts.length * 0.05 * 3000 is 150 per contact, and 12.50 per lead
generateROIReport ==
    [report_type |-> "roi",
     total_contacts |-> Len(contacts),
     estimated_customers |-> (Len(contacts) + 10) \div 20,
     avg_customer_value |-> avgCustomerValue,
     estimated_revenue |-> Len(contacts) * 150,
     cost_per_lead |-> Number2(1250),
     roi |-> IF Len(contacts) = 0 THEN toFixedNaN
             ELSE toFixed2(Percent2(Len(contacts) * 300, Len(contacts) * 25))]

\* the report handler with the daily report as its default case
GetReportDefaultDaily(type) ==
    /\ notifications' = <<>>
    /\ UNCHANGED persistence
    /\ req' = [op |-> "GetReport", type |-> type]
    /\ res' = IF type = "event" THEN Response("GetReport", 200, generateEventReport)
              ELSE IF type = "roi" THEN Response("GetReport", 200, generateROIReport)
              ELSE Response("GetReport", 200, generateDailyReport)
    /\ qrCodes' = IF type = "event" THEN sort(qrCodes) ELSE qrCodes
    /\ UNCHANGED <<contacts, scans, loummelSignups, wheelResults, now>>

\* GET /api/analytics/reports/:type
GetReport(type) ==
    /\ notifications' = <<>>
    /\ UNCHANGED persistence
    /\ req' = [op |-> "GetReport", type |-> type]
    /\ res' = IF type = "daily" THEN Response("GetReport", 200, generateDailyReport)
              ELSE IF type = "event" THEN Response("GetReport", 200, generateEventReport)
              ELSE IF type = "roi" THEN Response("GetReport", 200, generateROIReport)
              ELSE Response("GetReport", 400, <<>>)
    /\ qrCodes' = IF type = "event" THEN sort(qrCodes) ELSE qrCodes
    /\ UNCHANGED <<contacts, scans, loummelSignups, wheelResults, now>>

---------------------------------------------------------------------------
(* CSV export and the routes below /api/contacts/ *)

\* val.includes(',')
includesComma(val) == val \in {"Acme, Inc"}

\* typeof val === 'string' && val.includes(',') ? `"${val}"` : val
Cell(val) == [quoted |-> includesComma(val), text |-> val]

\* Object.keys(obj) and Object.values(obj), each joined by ',': a line is
\* the sequence of its cells
KeysLine(obj) == [j \in 1..Len(obj) |-> [quoted |-> FALSE, text |-> obj[j][1]]]

ValuesLine(obj) == [j \in 1..Len(obj) |-> Cell(obj[j][2])]

\* generateCSV(data): the lines joined by '\n'; the empty string has no line
generateCSV(data) ==
    IF Len(data) = 0 THEN <<>>
    ELSE <<KeysLine(data[1])>> \o [i \in 1..Len(data) |-> ValuesLine(data[i])]

\* GET /api/contacts/export
ExportContacts ==
    /\ notifications' = <<>>
    /\ UNCHANGED persistence
    /\ req' = [op |-> "ExportContacts"]
    /\ res' = Response("ExportContacts", 200, generateCSV(contacts))
    /\ UNCHANGED <<collections, now>>

\* the GET routes with one path segment below /api/contacts/, in the order
\* the application registers them
ContactRoutes == << [pattern |-> ":id", handler |-> "GetContact"],
                    [pattern |-> "export", handler |-> "ExportContacts"] >>

\* a route parameter matches any segment, a literal matches itself
Matches(pattern, segment) == pattern = ":id" \/ pattern = segment

\* Express hands the request to the first route that matches
FirstMatch(segment) ==
    ContactRoutes[CHOOSE i \in 1..Len(ContactRoutes) :
                     /\ Matches(ContactRoutes[i].pattern, segment)
                     /\ \A j \in 1..(i - 1) : ~Matches(ContactRoutes[j].pattern, segment)]

PathSegments == IdParams \cup {"export"}

\* GET /api/contacts/<segment>
RouteGetContacts(segment) ==
    IF FirstMatch(segment).handler = "GetContact"
    THEN GetContact(segment)
    ELSE ExportContacts

\* request bodies of PUT /api/contacts/:id that carry bookkeeping fields
KeyPatches ==
    { << <<"id", "7">> >>,
      << <<"created_at", "2025-01-01T00:00:00.000Z">>, <<"company", "Acme">> >>,
      << <<"callback_preference", "urgent">> >> }

---------------------------------------------------------------------------

Init ==
    /\ contacts = <<>>
    /\ qrCodes = <<>>
    /\ scans = <<>>
    /\ loummelSignups = <<>>
    /\ wheelResults = <<>>
    /\ now = 1
    /\ req = [op |-> "none"]
    /\ res = Response("none", 0, <<>>)
    /\ notifications = <<>>
    /\ file = <<>>
    /\ writeQueue = <<>>
    /\ writing = <<>>
    /\ acked = <<>>

\* contacts are created and read back
ClassifyNext ==
    \/ \E body \in ContactBodies : CreateContact(body)
    \/ \E id \in IdParams : GetContact(id)

SpecClassify == Init /\ [][ClassifyNext]_vars

\* contacts are created, updated, deleted and read back
ContactsNext ==
    \/ \E body \in UpdatedBodies : Len(contacts) < MaxUpdated /\ CreateContact(body)
    \/ \E id \in IdParams : GetContact(id)
    \/ \E id \in IdParams, patch \in ContactPatches : UpdateContact(id, patch)
    \/ \E id \in IdParams : DeleteContact(id)

SpecContacts == Init /\ [][ContactsNext]_vars

\* contacts are appended, deleted and listed
ListNext ==
    \/ \E body \in ContactBodies : CreateContact(body)
    \/ \E id \in IdParams : DeleteContact(id)
    \/ \E status \in StatusFilters, limit \in QueryNumbers, offset \in QueryNumbers :
         ListContacts(status, limit, offset)

SpecList == Init /\ [][ListNext]_vars

\* the QR-code endpoints and the reports
QRNext ==
    \/ \E body \in QRCodeBodies : CreateQRCode(body)
    \/ ListQRCodes
    \/ \E id \in IdParams : GetQRCodeStats(id)
    \/ \E id \in IdParams : RecordScan(id)
    \/ \E type \in ReportTypes : GetReport(type)

SpecQR == Init /\ [][QRNext]_vars

SignupNext ==
    \/ \E body \in SignupBodies : CreateSignup(body)
    \/ ListSignups

SpecSignup == Init /\ [][SignupNext]_vars

Records == Len(contacts) + Len(qrCodes) + Len(scans) + Len(loummelSignups)
             + Len(wheelResults)

\* every endpoint that appends a record
CreateNext ==
    \/ \E body \in ContactBodies : Records < MaxRecords /\ CreateContact(body)
    \/ \E body \in QRCodeBodies : Records < MaxRecords /\ CreateQRCode(body)
    \/ \E id \in IdParams : Records < MaxRecords /\ RecordScan(id)
    \/ \E body \in SignupBodies : Records < MaxRecords /\ CreateSignup(body)
    \/ \E body \in WheelBodies : Records < MaxRecords /\ CreateWheelResult(body)

SpecCreate == Init /\ [][CreateNext]_vars

\* requests that name ids, against contacts and QR codes
NotFoundNext ==
    \/ Len(contacts) < MaxUpdated /\ CreateContact(Person("b@x.io"))
    \/ \E body \in QRCodeBodies : Records < MaxRecords /\ CreateQRCode(body)
    \/ \E id \in IdParams : UpdateContact(id, << <<"company", "Acme">> >>)
    \/ \E id \in IdParams : GetQRCodeStats(id)
    \/ \E id \in IdParams : Records < MaxRecords /\ RecordScan(id)

SpecNotFound == Init /\ [][NotFoundNext]_vars

\* contacts are created and the paths below /api/contacts/ are requested
ExportNext ==
    \/ \E body \in ContactBodies : CreateContact(body)
    \/ \E segment \in PathSegments : RouteGetContacts(segment)

SpecExport == Init /\ [][ExportNext]_vars

\* contacts are created, patched and read back
PatchNext ==
    \/ \E body \in UpdatedBodies : Len(contacts) < MaxUpdated /\ CreateContact(body)
    \/ \E id \in IdParams, patch \in KeyPatches : UpdateContact(id, patch)
    \/ \E id \in IdParams \cup {"7"} : GetContact(id)

SpecPatch == Init /\ [][PatchNext]_vars

\* request bodies of POST /api/contacts: one that passes validation, one
\* that does not
NotifiedBodies == {Person("b@x.io"), Person("nobody")}

\* the creations that notify, and the outcomes of their notifications
NotifyNext ==
    \/ \E body \in NotifiedBodies : Records < MaxRecords /\ CreateContact(body)
    \/ \E body \in SignupBodies : Records < MaxRecords /\ CreateSignup(body)
    \/ \E body \in WheelBodies : Records < MaxRecords /\ CreateWheelResult(body)
    \/ \E i \in 1..Len(notifications), outcome \in Outcomes : Settle(i, outcome)

SpecNotify == Init /\ [][NotifyNext]_vars

\* mutating requests against the file-backed store
FileNext ==
    \/ \E m \in Mutations : Submit(m)
    \/ StartWrite
    \/ \E i \in 1..Len(writing) : FinishWrite(i)

SpecFile == Init /\ [][FileNext]_vars

Next == ClassifyNext \/ ContactsNext \/ ListNext \/ QRNext \/ SignupNext \/ CreateNext
            \/ NotFoundNext \/ ExportNext \/ PatchNext \/ NotifyNext \/ FileNext

Spec == Init /\ [][Next]_vars

---------------------------------------------------------------------------
(* Properties *)

\* the number of scans that reference the QR code id
ScansReferencing(id) == Cardinality({i \in 1..Len(scans) : Get(scans[i], "qr_code_id") = id})

\* no two records of the collection have the same id
DistinctIds(s) == \A i, j \in 1..Len(s) : i # j => Get(s[i], "id") # Get(s[j], "id")

\* C1: in every reachable state, the scan_count of every stored QR code is
\* the number of scans whose qr_code_id is that QR code's id.
C1_ScanCountIsNumberOfScans ==
    \A i \in 1..Len(qrCodes) :
        Get(qrCodes[i], "scan_count") = ScansReferencing(Get(qrCodes[i], "id"))

\* the same, as long as the QR codes have different ids
C1_ScanCountWhenIdsDiffer ==
    DistinctIds(qrCodes) => C1_ScanCountIsNumberOfScans

\* a signup request whose email is the email of a stored signup
DuplicateSignupStep ==
    /\ req'.op = "CreateSignup"
    /\ \E i \in 1..Len(loummelSignups) :
           Get(loummelSignups[i], "email") = Get(req'.body, "email")

NoSharedEmail ==
    \A i, j \in 1..Len(loummelSignups) :
        i # j => Get(loummelSignups[i], "email") # Get(loummelSignups[j], "email")

\* C2: a signup whose email is already stored is answered 400 and leaves
\* the signups (and every other collection) as they were, and no two stored
\* signups ever share an email.
C2_DuplicateSignupRejected ==
    /\ []NoSharedEmail
    /\ [][DuplicateSignupStep => res'.status = 400 /\ UNCHANGED collections]_vars

\* a duplicate signup has just been rejected while a signup is stored
C2_Witness ==
    /\ res.op = "CreateSignup" /\ res.status = 400 /\ res.data = "already"
    /\ \E i \in 1..Len(loummelSignups) :
           Get(loummelSignups[i], "email") = Get(req.body, "email")

\* C3: in every collection, no two records have the same id.
C3_UniqueIds ==
    /\ DistinctIds(contacts)
    /\ DistinctIds(qrCodes)
    /\ DistinctIds(scans)
    /\ DistinctIds(loummelSignups)
    /\ DistinctIds(wheelResults)

\* a delete request whose id matches no stored contact
DeleteMissingStep ==
    /\ req'.op = "DeleteContact"
    /\ \A i \in 1..Len(contacts) : Get(contacts[i], "id") # req'.id

\* C4: deleting an id that matches no contact is answered 404 and leaves
\* the contacts, and every other collection, exactly as they were.
C4_DeleteMissingChangesNothing ==
    [][DeleteMissingStep => res'.status = 404 /\ UNCHANGED collections]_vars

\* a delete has just been answered 404 while a contact is stored
C4_Witness ==
    /\ res.op = "DeleteContact" /\ res.status = 404
    /\ Len(contacts) >= 1

\* C5: a list request with limit=L and offset=O and no filter returns
\* min(L, max(0, N - O)) items, the i-th being the stored contact at
\* position O + i.
C5_PageOfLimitAndOffset ==
    (/\ res.op = "ListContacts"
     /\ req.status = Undefined
     /\ req.limit.t = "string" /\ req.offset.t = "string")
    => LET L == DigitsToNum(req.limit.s)
           O == DigitsToNum(req.offset.s)
           N == Len(contacts)
           page == res.data.data
       IN  /\ Len(page) = Min(L, Max(0, N - O))
           /\ \A i \in 1..Len(page) : O + i <= N /\ page[i] = contacts[O + i]

\* C6: a report request changes none of the five collections, the order of
\* the QR codes included.
C6_ReportChangesNothing ==
    [][req'.op = "GetReport" => UNCHANGED collections]_vars

\* the QR codes in the order they were created
ByInsertion ==
    [i \in 1..Len(qrCodes) |->
        qrCodes[CHOOSE k \in 1..Len(qrCodes) : Get(qrCodes[k], "seq") = i]]

\* C7: the event report's top_qr_codes are the first min(5, n) QR codes by
\* descending scan_count, equal counts in creation order.
C7_TopByScansThenInsertion ==
    (res.op = "GetReport" /\ res.status = 200 /\ req.type = "event")
    => LET top == res.data.top_qr_codes
           want == sort(ByInsertion)
       IN  /\ Len(top) = Min(TopCount, Len(qrCodes))
           /\ \A i \in 1..Len(top) :
                  /\ top[i].name = Get(want[i], "name")
                  /\ top[i].scans = Get(want[i], "scan_count")

\* C8: the contact a create request stores has status hot for the preference
\* urgent, warm for 48h and cold for anything else or none, whatever status
\* the body carries.
C8_StatusFromPreference ==
    (res.op = "CreateContact" /\ res.status = 201)
    => LET pref == Get(req.body, "callback_preference")
           stored == contacts[Len(contacts)]
       IN  /\ stored = res.data
           /\ pref = "urgent" => Get(stored, "status") = "hot"
           /\ pref = "48h" => Get(stored, "status") = "warm"
           /\ pref \notin {"urgent", "48h"} => Get(stored, "status") = "cold"

\* a contact was created from a body that carries a status of its own
C8_Witness ==
    /\ res.op = "CreateContact" /\ res.status = 201
    /\ Get(req.body, "status") = "hot"
    /\ Get(req.body, "callback_preference") = "48h"

\* an update that succeeds and whose patch has no status
UpdateWithoutStatusStep ==
    /\ req'.op = "UpdateContact" /\ res'.status = 200
    /\ ~Has(req'.body, "status")

\* C9: an update whose patch has no status leaves the contact's status as
\* it was, also when the patch changes callback_preference.
C9_UpdateKeepsStatus ==
    [][UpdateWithoutStatusStep =>
         \A i \in 1..Len(contacts) :
             Get(contacts'[i], "status") = Get(contacts[i], "status")]_vars

\* an update has set the preference to urgent and the contact is not hot
C9_Witness ==
    /\ res.op = "UpdateContact" /\ res.status = 200
    /\ ~Has(req.body, "status")
    /\ Get(res.data, "callback_preference") = "urgent"
    /\ Get(res.data, "status") # "hot"
    /\ \E i \in 1..Len(contacts) : contacts[i] = res.data

\* C10: the stats of an existing QR code count its scans and the converted
\* ones, and conversion_rate is the number 0 without scans and otherwise
\* conversions / total_scans * 100 rounded to two decimals.
C10_StatsOfQRCode ==
    (res.op = "GetQRCodeStats" /\ res.status = 200)
    => LET mine == {i \in 1..Len(scans) : Get(scans[i], "qr_code_id") = req.id}
           won == {i \in mine : Get(scans[i], "converted") = TRUE}
       IN  /\ res.data.total_scans = Cardinality(mine)
           /\ res.data.conversions = Cardinality(won)
           /\ res.data.conversion_rate =
                  Number2(IF Cardinality(mine) = 0 THEN 0
                          ELSE Percent2(Cardinality(won), Cardinality(mine)))

\* the counts of the stats alone
C10_StatsCounts ==
    (res.op = "GetQRCodeStats" /\ res.status = 200)
    => LET mine == {i \in 1..Len(scans) : Get(scans[i], "qr_code_id") = req.id}
       IN  /\ res.data.total_scans = Cardinality(mine)
           /\ res.data.conversions = 0
           /\ res.data.conversion_rate.hundredths = 0

\* C11: a ROI report asked for while there is no contact is answered with an
\* error, never with a successful report whose roi comes from a division by 0.
C11_NoRoiWithoutContacts ==
    (res.op = "GetReport" /\ req.type = "roi" /\ Len(contacts) = 0)
    => res.status # 200

\* the ROI report of an empty store: status, type of roi and the text it holds
C11_RoiOfEmptyStore ==
    (res.op = "GetReport" /\ req.type = "roi" /\ Len(contacts) = 0)
    => res.status = 200 /\ res.data.roi = toFixedNaN

\* a report of an unknown kind is being answered
UnknownReportStep ==
    req'.op = "GetReport" /\ req'.type \notin {"daily", "event", "roi"}

\* C12: a report of a kind other than daily, event and roi is answered with a
\* client error that carries no report, and no collection changes.
C12_UnknownReportRejected ==
    [][UnknownReportStep
       => res'.status = 400 /\ res'.data = <<>> /\ UNCHANGED collections]_vars

\* a weekly report has been refused while QR codes and scans exist
C12_Witness ==
    /\ res.op = "GetReport" /\ res.status = 400
    /\ req.type = "weekly"
    /\ Len(qrCodes) >= 1 /\ Len(scans) >= 1

\* a request names a contact or a QR code that is not stored
MissingIdStep ==
    \/ /\ req'.op = "UpdateContact"
       /\ \A i \in 1..Len(contacts) : Get(contacts[i], "id") # req'.id
    \/ /\ req'.op \in {"GetQRCodeStats", "RecordScan"}
       /\ \A i \in 1..Len(qrCodes) : Get(qrCodes[i], "id") # req'.id

\* C13: updating a contact, reading the stats of a QR code and recording a
\* scan with an id that is not stored answer 404 and change no collection.
C13_MissingIdIsNotFound ==
    [][MissingIdStep => res'.status = 404 /\ UNCHANGED collections]_vars

\* a scan of an unknown QR code was refused while a QR code and a scan of it
\* are stored
C13_Witness ==
    /\ res.op = "RecordScan" /\ res.status = 404
    /\ Len(qrCodes) >= 1 /\ Len(scans) >= 1
    /\ \A i \in 1..Len(qrCodes) : Get(qrCodes[i], "id") # req.id

\* the path /api/contacts/export has been requested, whichever handler took it
ExportRequested ==
    \/ req.op = "GetContact" /\ req.id = "export"
    \/ req.op = "ExportContacts"

\* C16: a request for the export of the contacts is handled by the export
\* operation and answered with the CSV rendering of the whole collection.
C16_ExportAnsweredWithCSV ==
    ExportRequested
    => /\ res.op = "ExportContacts"
       /\ res.status = 200
       /\ res.data = generateCSV(contacts)

\* what the request for the export gets: the answer of the get-by-id handler
C16_ExportTakenAsId ==
    ExportRequested
    => /\ res.op = "GetContact"
       /\ res.status = IF findIndex(contacts, "export") = -1 THEN 404 ELSE 200

\* a reader of the CSV: the first line names the fields, and the cells of a
\* later line, stripped of their quotes, are the values of the fields at the
\* same positions
parseCSV(lines) ==
    IF Len(lines) = 0 THEN <<>>
    ELSE [i \in 1..(Len(lines) - 1) |->
            [j \in 1..Min(Len(lines[1]), Len(lines[i + 1])) |->
                <<lines[1][j].text, lines[i + 1][j].text>>]]

\* C17: reading the CSV of the contacts back gives every contact the value it
\* has in memory for each of its fields, and every data row has as many
\* values as the header has names.
C17_CSVRoundTrips ==
    LET csv == generateCSV(contacts)
    IN  \A i \in 1..Len(contacts) :
           /\ Len(csv[i + 1]) = Len(csv[1])
           /\ \A k \in 1..Len(contacts[i]) :
                 Get(parseCSV(csv)[i], contacts[i][k][1]) = contacts[i][k][2]

\* the CSV of contacts that all have the fields of the first one, in its order
C17_RoundTripsWhenKeysAgree ==
    LET csv == generateCSV(contacts)
    IN  (\A i \in 1..Len(contacts) :
            [k \in 1..Len(contacts[i]) |-> contacts[i][k][1]]
              = [k \in 1..Len(contacts[1]) |-> contacts[1][k][1]])
        => \A i \in 1..Len(contacts) :
              /\ Len(csv[i + 1]) = Len(csv[1])
              /\ \A k \in 1..Len(contacts[i]) :
                    Get(parseCSV(csv)[i], contacts[i][k][1]) = contacts[i][k][2]

\* C18: right after a successful delete of id X no stored contact has id X,
\* so reading X answers 404 and no list shows it.
C18_DeletedContactIsGone ==
    [][(req'.op = "DeleteContact" /\ res'.status = 200)
       => \A i \in 1..Len(contacts') : Get(contacts'[i], "id") # req'.id]_vars

\* the same when the stored ids are pairwise different before the delete
C18_GoneWhenIdsDiffer ==
    [][(/\ req'.op = "DeleteContact" /\ res'.status = 200
        /\ \A i, j \in 1..Len(contacts) :
              Get(contacts[i], "id") = Get(contacts[j], "id") => i = j)
       => \A i \in 1..Len(contacts') : Get(contacts'[i], "id") # req'.id]_vars

\* C19: a successful update of contact X keeps the number of contacts, every
\* other contact, and the id and created_at of X.
C19_UpdateKeepsIdentity ==
    [][(req'.op = "UpdateContact" /\ res'.status = 200)
       => \E i \in 1..Len(contacts) :
             /\ Get(contacts[i], "id") = req'.id
             /\ \A j \in 1..(i - 1) : Get(contacts[j], "id") # req'.id
             /\ Len(contacts') = Len(contacts)
             /\ \A j \in 1..Len(contacts) : j # i => contacts'[j] = contacts[j]
             /\ Get(contacts'[i], "id") = req'.id
             /\ Get(contacts'[i], "created_at") = Get(contacts[i], "created_at")]_vars

\* the frame of an update alone: the count and the other contacts
C19_UpdateKeepsOthers ==
    [][(req'.op = "UpdateContact" /\ res'.status = 200)
       => \E i \in 1..Len(contacts) :
             /\ Get(contacts[i], "id") = req'.id
             /\ Len(contacts') = Len(contacts)
             /\ \A j \in 1..Len(contacts) : j # i => contacts'[j] = contacts[j]]_vars

\* C20: every stored contact's status is hot, warm or cold, so the lead
\* distribution of the event report sums to the number of contacts.
C20_StatusInEnum ==
    /\ \A i \in 1..Len(contacts) :
          Get(contacts[i], "status") \in {"hot", "warm", "cold"}
    /\ LET d == generateEventReport.lead_distribution
       IN  d.hot + d.warm + d.cold = generateEventReport.total_contacts

\* the same for contacts that no update has touched
C20_StatusInEnumAfterCreate ==
    \A i \in 1..Len(contacts) :
       Get(contacts[i], "status") \in {"hot", "warm", "cold"}

\* the notifications a creation must have started for the record it answers with
Expected(op) ==
    IF op = "CreateContact" THEN <<"sendWelcomeEmail", "syncToCRM">>
    ELSE IF op = "CreateSignup" THEN <<"sendLoummelWelcomeEmail">>
    ELSE <<"sendPrizeConfirmationEmail">>

\* the collection a creation appends to
CollectionOf(op, cs, ss, ws) ==
    IF op = "CreateContact" THEN cs
    ELSE IF op = "CreateSignup" THEN ss
    ELSE ws

\* a pending notification settles
SettleStep ==
    /\ Len(notifications') = Len(notifications)
    /\ \E i \in 1..Len(notifications) :
          /\ notifications[i].state = "pending"
          /\ notifications'[i] = [notifications[i] EXCEPT !.state = "done"]
             \/ notifications'[i] = [notifications[i] EXCEPT !.state = "failed"]

\* a creation with a body that passes validation (and, for a signup, an email
\* that is not registered yet) is being answered
ValidCreateStep ==
    /\ ~SettleStep
    /\ \/ req'.op = "CreateContact" /\ Valid(req'.body, ContactFields)
       \/ /\ req'.op = "CreateSignup" /\ Valid(req'.body, SignupFields)
          /\ \A i \in 1..Len(loummelSignups) :
                Get(loummelSignups[i], "email")
                  # Get(Sanitize(req'.body, SignupFields), "email")
       \/ req'.op = "CreateWheelResult" /\ Valid(req'.body, WheelFields)

\* the creation is answered 201 with the record it has appended, and each of
\* its notifications has been started once
CreatedAndNotified ==
    /\ res'.status = 201
    /\ CollectionOf(req'.op, contacts', loummelSignups', wheelResults')
          = Append(CollectionOf(req'.op, contacts, loummelSignups, wheelResults),
                   res'.data)
    /\ Len(notifications') = Len(Expected(req'.op))
    /\ \A i \in 1..Len(notifications') :
          /\ notifications'[i].fn = Expected(req'.op)[i]
          /\ notifications'[i].id = Get(res'.data, "id")
          /\ notifications'[i].state = "pending"

\* a notification that was not pending before the step is pending after it
StartStep ==
    \E i \in 1..Len(notifications') :
       /\ notifications'[i].state = "pending"
       /\ i > Len(notifications) \/ notifications[i] # notifications'[i]

\* while the notifications of a creation are pending or settled, its answer
\* is the success response and its record is stored
AnsweredAndStored ==
    Len(notifications) > 0
    => /\ res.status = 201
       /\ LET stored == CollectionOf(res.op, contacts, loummelSignups, wheelResults)
          IN  \E i \in 1..Len(stored) : stored[i] = res.data

\* C14: a valid creation of a contact, a signup or a wheel result stores the
\* record and answers success whatever becomes of its notifications; each
\* notification is started once, by the creation of its record only, and a
\* notification that settles, failed or not, changes neither the answer nor
\* a collection and is not started again.
C14_FireAndForget ==
    /\ []AnsweredAndStored
    /\ [][ValidCreateStep => CreatedAndNotified]_vars
    /\ [][StartStep => ValidCreateStep /\ CreatedAndNotified]_vars
    /\ [][SettleStep => UNCHANGED <<req, res, collections>>]_vars

\* both notifications of a created contact have failed, and the answer is
\* still the 201 with the stored contact
C14_Witness ==
    /\ res.op = "CreateContact" /\ res.status = 201
    /\ Len(notifications) = 2
    /\ \A i \in 1..2 : notifications[i].state = "failed"
    /\ \E i \in 1..Len(contacts) : contacts[i] = res.data

\* the snapshot that the acknowledged mutations give when they are applied
\* one after the other to the empty collection
RECURSIVE Replay(_)
Replay(ms) ==
    IF Len(ms) = 0 THEN <<>>
    ELSE Apply(Replay(SubSeq(ms, 1, Len(ms) - 1)), ms[Len(ms)])

\* C15: under the file-backed policy the writes of a file go through one
\* queue, one writer at a time, and no update is lost: the persisted
\* collection reflects every acknowledged append, update and delete.
C15_NoLostUpdate ==
    /\ Len(writing) <= 1
    /\ file = Replay(acked)

\* two writes are acknowledged and persisted while a third is in progress
C15_Witness ==
    /\ Len(acked) >= 2
    /\ Len(writing) = 1
    /\ Len(file) >= 1

=============================================================================
